---- MODULE Spec2Model ----
(***************************************************************************)
(* TinyVM (src/TinyVM/main.cpp): an LC-3 simulator skeleton.  The model    *)
(* covers the image loader (swap16, read_image_file, read_image), the      *)
(* memory interface (mem_read, mem_write, check_key), the console glue     *)
(* (disable_input_buffering) and the control flow of main: argument check, *)
(* load loop, setup and the fetch/decode loop.                             *)
(*                                                                         *)
(* memory[] is a 65536-cell array of uint16_t.  It is represented as a     *)
(* function whose domain is the set of addresses holding a nonzero word;   *)
(* every address of 0..65535 outside the domain holds 0 (Cell, Store).     *)
(***************************************************************************)
EXTENDS Integers, Sequences, FiniteSets, TLC

(* ---------------------------- bounds ----------------------------------- *)
MaxImages == 2      \* image paths on the command line
MaxWords  == 2      \* words that follow the origin word in an image file
MaxSteps  == 3      \* iterations of the execution loop that are explored
MaxInput  == 2      \* characters the console input buffer holds
MaxCalls  == 2      \* calls made by the memory-interface driver

(* ------------------------ program constants ---------------------------- *)
MEMORY_MAX == 65536
UINT16     == 2 ^ 16                \* the modulus of uint16_t
R_PC       == 8
R_COND     == 9
R_COUNT    == 10
OP_ADD     == 1
OP_RTI     == 8
OP_LDI     == 10
OP_RES     == 13
OP_TRAP    == 15
FL_POS     == 1
FL_ZRO     == 2
FL_NEG     == 4
MR_KBSR    == 65024                 \* 0xFE00
MR_KBDR    == 65026                 \* 0xFE02
PC_START   == 12288                 \* 0x3000
ENABLE_LINE_INPUT == 2              \* wincon.h, 0x0002
ENABLE_ECHO_INPUT == 4              \* wincon.h, 0x0004

(* --------------------- inputs: words, paths, keys ---------------------- *)
TRAP_HALT  == OP_TRAP * 4096 + 37    \* 0xF025  TRAP x25
WORD_RES   == OP_RES * 4096          \* 0xD000  opcode 1101
WORD_RTI   == OP_RTI * 4096          \* 0x8000  opcode 1000
WORD_ADD   == OP_ADD * 4096 + 512 + 32 + 31   \* 0x123F  ADD R1, R0, #-1
WORD_LDI   == OP_LDI * 4096 + 512    \* 0xA200  LDI R1, #0
WORD_PTR   == PC_START + 1           \* 0x3001  an address (and opcode ST)
Program    == <<TRAP_HALT, WORD_RES, WORD_RTI, WORD_ADD, WORD_LDI, WORD_PTR>>
Origins    == {0, PC_START, 65535}
Offsets    == {0, 1}
Chars      == {97, 98}              \* 'a', 'b'
ConsoleModes == {503, 497}          \* 0x1F7 (echo and line input on), 0x1F1

SeqsUpTo(S, n) == UNION {[1..k -> S] : k \in 0..n}

\* The n words of Program that start at offset s, wrapping around.
Window(s, n) == [i \in 1..n |-> Program[((s + i - 1) % Len(Program)) + 1]]

\* A path names either a file that fopen cannot open or an image file: a
\* big-endian origin word followed by big-endian words.
NoFile     == [exists |-> FALSE, origin |-> 0, words |-> <<>>]
ImageFiles == {[exists |-> TRUE, origin |-> o, words |-> Window(s, n)] :
                 o \in Origins, s \in Offsets, n \in 0..MaxWords}
Paths      == {NoFile} \cup ImageFiles

VARIABLES memory, reg, running, pcl, argv, j, nread, out, exit_code,
          kbd, handler, hStdin, conMode, fdwMode, fdwOldMode,
          priorMode, fetch_addr, instr, nfetch, call

vars == <<memory, reg, running, pcl, argv, j, nread, out, exit_code,
          kbd, handler, hStdin, conMode, fdwMode, fdwOldMode,
          priorMode, fetch_addr, instr, nfetch, call>>

(* ------------------------------ memory --------------------------------- *)
Cell(mem, a) == IF a \in DOMAIN mem THEN mem[a] ELSE 0

Store(mem, a, v) ==
    IF v = 0
    THEN [x \in (DOMAIN mem) \ {a} |-> mem[x]]
    ELSE [x \in (DOMAIN mem) \cup {a} |-> IF x = a THEN v ELSE mem[x]]

ZeroMemory == [x \in {} |-> 0]

(* ------------------------------ loader --------------------------------- *)
\* uint16_t swap16(uint16_t x) { return (x << 8) | (x >> 8); }
\* x << 8 has its low byte clear and x >> 8 is below 256, so the OR is a sum;
\* the return converts the int to uint16_t.
\* Variant: the result is not converted back to uint16_t.
swap16_wide(x) == (x * 256) + (x \div 256)

\* Variant: the high byte of the argument is dropped.
swap16_hi(x) == (x * 256) % UINT16

swap16(x) == ((x * 256) + (x \div 256)) % UINT16

\* The two bytes of a big-endian word as they lie in the file.
HiByte(w) == w \div 256
LoByte(w) == w % 256

\* fread of one uint16_t on the little-endian host: first byte is the low one.
FreadWord(w) == HiByte(w) + 256 * LoByte(w)

Min(a, b) == IF a < b THEN a ELSE b

\* fread(p, sizeof(uint16_t), max_read, file): stores the items it gets.
RECURSIVE FreadInto(_, _, _, _)
FreadInto(mem, p, ws, n) ==
    IF n = 0 THEN mem
    ELSE FreadInto(Store(mem, p, FreadWord(Head(ws))), p + 1, Tail(ws), n - 1)

\* while (read-- > 0) { *p = swap16(*p); p++; }
RECURSIVE SwapLoop(_, _, _)
SwapLoop(mem, p, read) ==
    IF read = 0 THEN mem
    ELSE SwapLoop(Store(mem, p, swap16(Cell(mem, p))), p + 1, read - 1)

ImageOrigin(path) == swap16(FreadWord(path.origin))

\* Variant: room for one word more than the array has.
MaxRead_plus(origin) == (MEMORY_MAX - origin + 1) % UINT16

\* uint16_t max_read = MEMORY_MAX - origin;
MaxRead(origin)   == (MEMORY_MAX - origin) % UINT16
ReadCount(path)   == Min(MaxRead(ImageOrigin(path)), Len(path.words))

\* Variant: cells an earlier image filled are not overwritten.
read_image_file_keep(mem, path) ==
    LET origin == ImageOrigin(path)
        read   == ReadCount(path)
        new    == SwapLoop(FreadInto(ZeroMemory, origin, path.words, read),
                           origin, read)
    IN  [x \in (DOMAIN mem) \cup (DOMAIN new) |->
           IF x \in DOMAIN mem THEN mem[x] ELSE new[x]]

read_image_file(mem, path) ==
    LET origin == ImageOrigin(path)
        read   == ReadCount(path)
    IN  SwapLoop(FreadInto(mem, origin, path.words, read), origin, read)

\* Variant: the result of fopen is not tested.
read_image_always(path) == 1

\* int read_image(const char* image_path): 0 when fopen fails, else 1.
read_image(path) == IF path.exists THEN 1 ELSE 0

(* ---------------------------- mem interface ---------------------------- *)
\* check_key(): nonzero iff a key is waiting on the console.
check_key(kb) == IF kb # <<>> THEN 1 ELSE 0

\* Variant: off-by-one cell index.
mem_write_next(mem, address, val) == Store(mem, (address + 1) % UINT16, val)

\* void mem_write(uint16_t address, uint16_t val) { memory[address] = val; }
mem_write(mem, address, val) == Store(mem, address, val)

\* Variant: the status cell is not cleared when no key is waiting.
mem_read_stale(mem, kb, address) ==
    IF address = MR_KBSR /\ check_key(kb) # 0
    THEN LET m == Store(Store(mem, MR_KBSR, 32768), MR_KBDR, Head(kb))
         IN  [memory |-> m, kbd |-> Tail(kb), ret |-> Cell(m, address)]
    ELSE [memory |-> mem, kbd |-> kb, ret |-> Cell(mem, address)]

\* Variant: the data register address polls the keyboard as well.
mem_read_anywhere(mem, kb, address) ==
    IF address \in {MR_KBSR, MR_KBDR}
    THEN IF check_key(kb) # 0
         THEN LET m == Store(Store(mem, MR_KBSR, 32768), MR_KBDR, Head(kb))
              IN  [memory |-> m, kbd |-> Tail(kb), ret |-> Cell(m, address)]
         ELSE LET m == Store(mem, MR_KBSR, 0)
              IN  [memory |-> m, kbd |-> kb, ret |-> Cell(m, address)]
    ELSE [memory |-> mem, kbd |-> kb, ret |-> Cell(mem, address)]

\* Variant: the character is stored but not taken from the input.
mem_read_peek(mem, kb, address) ==
    IF address = MR_KBSR
    THEN IF check_key(kb) # 0
         THEN LET m == Store(Store(mem, MR_KBSR, 32768), MR_KBDR, Head(kb))
              IN  [memory |-> m, kbd |-> kb, ret |-> Cell(m, address)]
         ELSE LET m == Store(mem, MR_KBSR, 0)
              IN  [memory |-> m, kbd |-> kb, ret |-> Cell(m, address)]
    ELSE [memory |-> mem, kbd |-> kb, ret |-> Cell(mem, address)]

\* The memory and keyboard after the call, and the returned word.
mem_read(mem, kb, address) ==
    IF address = MR_KBSR
    THEN IF check_key(kb) # 0
         THEN LET m == Store(Store(mem, MR_KBSR, 32768), MR_KBDR, Head(kb))
              IN  [memory |-> m, kbd |-> Tail(kb), ret |-> Cell(m, address)]
         ELSE LET m == Store(mem, MR_KBSR, 0)
              IN  [memory |-> m, kbd |-> kb, ret |-> Cell(m, address)]
    ELSE [memory |-> mem, kbd |-> kb, ret |-> Cell(mem, address)]

\* The last call of the driver: its arguments and result, the number of calls
\* so far and the characters the calls have taken from the keyboard.
NoCall == [op |-> "none", addr |-> 0, val |-> 0, ret |-> 0, n |-> 0,
           got |-> <<>>]

(* ------------------------------ console ------------------------------- *)
RECURSIVE Xor(_, _)
Xor(a, b) ==
    IF a = 0 /\ b = 0 THEN 0
    ELSE ((a + b) % 2) + 2 * Xor(a \div 2, b \div 2)

\* SetConsoleMode(h, mode): fails, changing nothing, on an invalid handle.
SetConsoleMode(h, cur, mode) == IF h = "STD_INPUT_HANDLE" THEN mode ELSE cur

\* fdwMode = fdwOldMode ^ ENABLE_ECHO_INPUT ^ ENABLE_LINE_INPUT;
NewMode(old) == Xor(Xor(old, ENABLE_ECHO_INPUT), ENABLE_LINE_INPUT)

(* ------------------------------- main ---------------------------------- *)
Init ==
    /\ memory = ZeroMemory
    /\ reg = [r \in 0..(R_COUNT - 1) |-> 0]
    /\ running = 0
    /\ pcl = "args"
    /\ argv \in SeqsUpTo(Paths, MaxImages)
    /\ j = 1
    /\ nread = 0
    /\ out = <<>>
    /\ exit_code = 0
    /\ kbd = <<>>
    /\ handler = FALSE
    /\ hStdin = "INVALID_HANDLE_VALUE"
    /\ conMode \in ConsoleModes
    /\ priorMode = conMode
    /\ fdwMode = 0
    /\ fdwOldMode = 0
    /\ fetch_addr = 0
    /\ instr = 0
    /\ nfetch = 0
    /\ call = NoCall

\* if (argc < 2) { printf("lc3 [image-file1] ...\n"); exit(2); }
CheckArgs ==
    /\ pcl = "args"
    /\ IF Len(argv) + 1 < 2
       THEN /\ out' = Append(out, [msg |-> "lc3 [image-file1] ...", arg |-> 0])
            /\ exit_code' = 2
            /\ pcl' = "exited"
       ELSE /\ pcl' = "load"
            /\ UNCHANGED <<out, exit_code>>
    /\ UNCHANGED <<priorMode, hStdin, conMode, fdwMode, fdwOldMode, memory,
                   reg, running, argv, j, nread, kbd, handler, fetch_addr,
                   instr, nfetch, call>>

\* for (j = 1; j < argc; j++) if (!read_image(argv[j])) { printf; exit(1); }
LoadImage ==
    /\ pcl = "load"
    /\ IF j < Len(argv) + 1
       THEN IF read_image(argv[j]) = 0
            THEN /\ out' = Append(out, [msg |-> "failed to load image", arg |-> j])
                 /\ exit_code' = 1
                 /\ pcl' = "exited"
                 /\ UNCHANGED <<memory, j, nread>>
            ELSE /\ memory' = read_image_file(memory, argv[j])
                 /\ nread' = ReadCount(argv[j])
                 /\ j' = j + 1
                 /\ UNCHANGED <<out, exit_code, pcl>>
       ELSE /\ pcl' = "signal"
            /\ UNCHANGED <<memory, j, nread, out, exit_code>>
    /\ UNCHANGED <<priorMode, hStdin, conMode, fdwMode, fdwOldMode, reg,
                   running, argv, kbd, handler, fetch_addr, instr, nfetch,
                   call>>

\* signal(SIGINT, handle_interrupt);
InstallHandler ==
    /\ pcl = "signal"
    /\ handler' = TRUE
    /\ pcl' = "disable"
    /\ UNCHANGED <<priorMode, hStdin, conMode, fdwMode, fdwOldMode, memory,
                   reg, running, argv, j, nread, out, exit_code, kbd,
                   fetch_addr, instr, nfetch, call>>

\* disable_input_buffering(), first statement:
\* hStdin = GetStdHandle(STD_INPUT_HANDLE);
GetStdHandle ==
    /\ pcl = "disable"
    /\ hStdin' = "STD_INPUT_HANDLE"
    /\ pcl' = "getmode"
    /\ UNCHANGED <<priorMode, conMode, fdwMode, fdwOldMode, memory, reg,
                   running, argv, j, nread, out, exit_code, kbd, handler,
                   fetch_addr, instr, nfetch, call>>

\* disable_input_buffering(), second statement:
\* GetConsoleMode(hStdin, &fdwOldMode);
GetConsoleMode ==
    /\ pcl = "getmode"
    /\ fdwOldMode' = conMode
    /\ pcl' = "setmode"
    /\ UNCHANGED <<priorMode, hStdin, conMode, fdwMode, memory, reg,
                   running, argv, j, nread, out, exit_code, kbd, handler,
                   fetch_addr, instr, nfetch, call>>

\* disable_input_buffering(), the rest: compute the new mode, set it and
\* flush the pending console input.
DisableInputBuffering ==
    /\ pcl = "setmode"
    /\ fdwMode' = NewMode(fdwOldMode)
    /\ conMode' = SetConsoleMode(hStdin, conMode, NewMode(fdwOldMode))
    /\ kbd' = <<>>
    /\ pcl' = "init"
    /\ UNCHANGED <<priorMode, hStdin, fdwOldMode, memory, reg, running,
                   argv, j, nread, out, exit_code, handler, fetch_addr,
                   instr, nfetch, call>>

\* Variant: execution starts at the origin of the first image.
InitRegisters_AtOrigin ==
    /\ pcl = "init"
    /\ reg' = [reg EXCEPT ![R_COND] = FL_ZRO, ![R_PC] = ImageOrigin(argv[1])]
    /\ running' = 1
    /\ pcl' = "loop"
    /\ UNCHANGED <<priorMode, hStdin, conMode, fdwMode, fdwOldMode, memory,
                   argv, j, nread, out, exit_code, kbd, handler, fetch_addr,
                   instr, nfetch, call>>

\* Variant: the condition register is left as it was.
InitRegisters_NoCond ==
    /\ pcl = "init"
    /\ reg' = [reg EXCEPT ![R_PC] = PC_START]
    /\ running' = 1
    /\ pcl' = "loop"
    /\ UNCHANGED <<priorMode, hStdin, conMode, fdwMode, fdwOldMode, memory,
                   argv, j, nread, out, exit_code, kbd, handler, fetch_addr,
                   instr, nfetch, call>>

\* reg[R_COND] = FL_ZRO; reg[R_PC] = PC_START; int running = 1;
InitRegisters ==
    /\ pcl = "init"
    /\ reg' = [reg EXCEPT ![R_COND] = FL_ZRO, ![R_PC] = PC_START]
    /\ running' = 1
    /\ pcl' = "loop"
    /\ UNCHANGED <<priorMode, hStdin, conMode, fdwMode, fdwOldMode, memory,
                   argv, j, nread, out, exit_code, kbd, handler, fetch_addr,
                   instr, nfetch, call>>

\* Variant: the program counter is kept in a wider integer.
ExecutionLoop_NoWrap ==
    /\ pcl = "loop"
    /\ IF running # 0
       THEN /\ nfetch < MaxSteps
            /\ LET r == mem_read(memory, kbd, reg[R_PC])
               IN  /\ memory' = r.memory
                   /\ kbd' = r.kbd
                   /\ instr' = r.ret
            /\ fetch_addr' = reg[R_PC]
            /\ reg' = [reg EXCEPT ![R_PC] = reg[R_PC] + 1]
            /\ nfetch' = nfetch + 1
            /\ UNCHANGED <<running, pcl, exit_code, conMode>>
       ELSE /\ conMode' = SetConsoleMode(hStdin, conMode, fdwOldMode)
            /\ pcl' = "exited"
            /\ exit_code' = 0
            /\ UNCHANGED <<memory, kbd, instr, fetch_addr, reg, nfetch,
                           running>>
    /\ UNCHANGED <<priorMode, argv, j, nread, out, handler, hStdin, fdwMode,
                   fdwOldMode, call>>

\* while (running) { instr = mem_read(reg[R_PC]++); op = instr >> 12;
\*                   switch (op) { every case: break; } }
\* restore_input_buffering(); return 0;
ExecutionLoop ==
    /\ pcl = "loop"
    /\ IF running # 0
       THEN /\ nfetch < MaxSteps
            /\ LET r == mem_read(memory, kbd, reg[R_PC])
               IN  /\ memory' = r.memory
                   /\ kbd' = r.kbd
                   /\ instr' = r.ret
            /\ fetch_addr' = reg[R_PC]
            /\ reg' = [reg EXCEPT ![R_PC] = (reg[R_PC] + 1) % UINT16]
            /\ nfetch' = nfetch + 1
            /\ UNCHANGED <<running, pcl, exit_code, conMode>>
       ELSE /\ conMode' = SetConsoleMode(hStdin, conMode, fdwOldMode)
            /\ pcl' = "exited"
            /\ exit_code' = 0
            /\ UNCHANGED <<memory, kbd, instr, fetch_addr, reg, nfetch,
                           running>>
    /\ UNCHANGED <<priorMode, argv, j, nread, out, handler, hStdin, fdwMode,
                   fdwOldMode, call>>

\* The user presses a key.  No step before the flush in
\* disable_input_buffering reads the keyboard, so a key pressed earlier is
\* taken as pressed just before the flush.
TypeKey ==
    /\ pcl \in {"setmode", "init", "loop", "driver"}
    /\ Len(kbd) < MaxInput
    /\ \E c \in Chars : kbd' = Append(kbd, c)
    /\ UNCHANGED <<priorMode, hStdin, conMode, fdwMode, fdwOldMode, memory,
                   reg, running, pcl, argv, j, nread, out, exit_code,
                   handler, fetch_addr, instr, nfetch, call>>

Next ==
    \/ CheckArgs
    \/ LoadImage
    \/ InstallHandler
    \/ GetStdHandle
    \/ GetConsoleMode
    \/ DisableInputBuffering
    \/ InitRegisters
    \/ ExecutionLoop
    \/ TypeKey

Spec == Init /\ [][Next]_vars

(* ---------------- the memory interface called on its own --------------- *)
\* mem_read and mem_write applied, in any order, to the memory one loaded
\* image leaves behind, with the console set up as main leaves it.
DriverAddrs == {PC_START, MR_KBSR, MR_KBDR}
DriverVals  == {0, TRAP_HALT}

InitMem ==
    /\ \E p \in ImageFiles :
          /\ argv = <<p>>
          /\ memory = read_image_file(ZeroMemory, p)
          /\ nread = ReadCount(p)
    /\ reg = [r \in 0..(R_COUNT - 1) |-> 0]
    /\ running = 0
    /\ pcl = "driver"
    /\ j = 2
    /\ out = <<>>
    /\ exit_code = 0
    /\ kbd = <<>>
    /\ handler = TRUE
    /\ hStdin = "STD_INPUT_HANDLE"
    /\ \E m \in ConsoleModes :
          /\ fdwOldMode = m
          /\ fdwMode = NewMode(m)
          /\ conMode = NewMode(m)
          /\ priorMode = m
    /\ fetch_addr = 0
    /\ instr = 0
    /\ nfetch = 0
    /\ call = NoCall

MemReadCall ==
    /\ pcl = "driver"
    /\ call.n < MaxCalls
    /\ \E a \in DriverAddrs :
          LET r == mem_read(memory, kbd, a)
          IN  /\ memory' = r.memory
              /\ kbd' = r.kbd
              /\ call' = [op |-> "mem_read", addr |-> a, val |-> 0,
                          ret |-> r.ret, n |-> call.n + 1,
                          got |-> IF Len(r.kbd) < Len(kbd)
                                  THEN Append(call.got, Head(kbd))
                                  ELSE call.got]
    /\ UNCHANGED <<priorMode, reg, running, pcl, argv, j, nread, out,
                   exit_code, handler, hStdin, conMode, fdwMode, fdwOldMode,
                   fetch_addr, instr, nfetch>>

MemWriteCall ==
    /\ pcl = "driver"
    /\ call.n < MaxCalls
    /\ \E a \in DriverAddrs, v \in DriverVals :
          /\ memory' = mem_write(memory, a, v)
          /\ call' = [op |-> "mem_write", addr |-> a, val |-> v,
                      ret |-> 0, n |-> call.n + 1, got |-> call.got]
    /\ UNCHANGED <<priorMode, reg, running, pcl, argv, j, nread, out,
                   exit_code, kbd, handler, hStdin, conMode, fdwMode,
                   fdwOldMode, fetch_addr, instr, nfetch>>

NextMem ==
    \/ MemReadCall
    \/ MemWriteCall
    \/ TypeKey

SpecMem == InitMem /\ [][NextMem]_vars

TypeOK ==
    /\ \A a \in DOMAIN memory : a \in 0..(MEMORY_MAX - 1) /\ memory[a] \in 1..(UINT16 - 1)
    /\ \A r \in 0..(R_COUNT - 1) : reg[r] \in 0..(UINT16 - 1)
    /\ running \in {0, 1}

(* ----------------------- main under SIGINT ----------------------------- *)
\* handle_interrupt(): restore_input_buffering(); printf("\n"); exit(-2);
\* It runs, once signal() has installed it, between any two steps of main.
HandleInterrupt ==
    /\ pcl # "exited"
    /\ handler
    /\ conMode' = SetConsoleMode(hStdin, conMode, fdwOldMode)
    /\ out' = Append(out, [msg |-> "\n", arg |-> 0])
    /\ exit_code' = -2
    /\ pcl' = "exited"
    /\ UNCHANGED <<priorMode, hStdin, fdwMode, fdwOldMode, memory, reg,
                   running, argv, j, nread, kbd, handler, fetch_addr, instr,
                   nfetch, call>>

NextSig ==
    \/ Next
    \/ HandleInterrupt

SpecSig == Init /\ [][NextSig]_vars

(* ------------------ read_image_file at every origin -------------------- *)
\* One call of read_image_file on an empty memory, for each 16-bit origin and
\* each stream length up to MaxWords.
AllOrigins == 0..(MEMORY_MAX - 1)
LoadFiles  == {[exists |-> TRUE, origin |-> o, words |-> Window(0, n)] :
                 o \in AllOrigins, n \in 0..MaxWords}

InitLoad ==
    /\ memory = ZeroMemory
    /\ reg = [r \in 0..(R_COUNT - 1) |-> 0]
    /\ running = 0
    /\ pcl = "loader"
    /\ argv \in {<<p>> : p \in LoadFiles}
    /\ j = 1
    /\ nread = 0
    /\ out = <<>>
    /\ exit_code = 0
    /\ kbd = <<>>
    /\ handler = FALSE
    /\ hStdin = "INVALID_HANDLE_VALUE"
    /\ conMode = 503
    /\ priorMode = conMode
    /\ fdwMode = 0
    /\ fdwOldMode = 0
    /\ fetch_addr = 0
    /\ instr = 0
    /\ nfetch = 0
    /\ call = NoCall

LoaderCall ==
    /\ pcl = "loader"
    /\ memory' = read_image_file(memory, argv[j])
    /\ nread' = ReadCount(argv[j])
    /\ j' = j + 1
    /\ pcl' = "loaded"
    /\ UNCHANGED <<reg, running, argv, out, exit_code, kbd, handler, hStdin,
                   conMode, priorMode, fdwMode, fdwOldMode, fetch_addr, instr,
                   nfetch, call>>

NextLoad == LoaderCall

SpecLoad == InitLoad /\ [][NextLoad]_vars

(* ------------------------- swap16 on every word ------------------------ *)
\* swap16 applied to each 16-bit word, and again to each result: call.val is
\* the argument of the last application and call.ret its result, call.addr the
\* word started from.
InitFn ==
    /\ memory = ZeroMemory
    /\ reg = [r \in 0..(R_COUNT - 1) |-> 0]
    /\ running = 0
    /\ pcl = "swap16"
    /\ argv = <<>>
    /\ j = 1
    /\ nread = 0
    /\ out = <<>>
    /\ exit_code = 0
    /\ kbd = <<>>
    /\ handler = FALSE
    /\ hStdin = "INVALID_HANDLE_VALUE"
    /\ conMode = 503
    /\ priorMode = conMode
    /\ fdwMode = 0
    /\ fdwOldMode = 0
    /\ fetch_addr = 0
    /\ instr = 0
    /\ nfetch = 0
    /\ \E x \in 0..(UINT16 - 1) : call = [NoCall EXCEPT !.op = "word", !.addr = x]

Swap16Call ==
    /\ pcl = "swap16"
    /\ call.n < MaxCalls
    /\ LET x == IF call.n = 0 THEN call.addr ELSE call.ret
       IN  call' = [call EXCEPT !.op = "swap16", !.val = x,
                                !.ret = swap16(x), !.n = call.n + 1]
    /\ UNCHANGED <<memory, reg, running, pcl, argv, j, nread, out, exit_code,
                   kbd, handler, hStdin, conMode, priorMode, fdwMode,
                   fdwOldMode, fetch_addr, instr, nfetch>>

NextFn == Swap16Call

SpecFn == InitFn /\ [][NextFn]_vars

(* ------------------- the execution loop, entered late ------------------ *)
\* The loop never leaves the fetch cycle, so after n iterations PC is
\* 0x3000 + n modulo 65536.  The states below are those the loop is in when
\* PC has reached one of StartPCs: memory as one image left it, except that a
\* run that has already fetched from 0xFE00 carries the result of that poll.
StartPCs   == {PC_START, MR_KBSR, 65535}
LoopImages == {[exists |-> TRUE, origin |-> o, words |-> Window(s, n)] :
                 o \in Origins, s \in 0..(Len(Program) - 1), n \in 0..MaxWords}

InitLoop ==
    \E p \in LoopImages, pc0 \in StartPCs, polled \in BOOLEAN,
       kb \in SeqsUpTo(Chars, 1), m \in ConsoleModes :
       LET loaded == read_image_file(ZeroMemory, p)
           r      == mem_read(loaded, kb, MR_KBSR)
           first  == pc0 = PC_START /\ ~polled
           last   == (pc0 + UINT16 - 1) % UINT16
       IN  /\ (pc0 = 65535 => polled)
           /\ (~polled => kb = <<>>)
           /\ argv = <<p>>
           /\ nread = ReadCount(p)
           /\ memory = IF polled THEN r.memory ELSE loaded
           /\ kbd = <<>>
           /\ reg = [x \in 0..(R_COUNT - 1) |->
                       IF x = R_PC THEN pc0 ELSE IF x = R_COND THEN FL_ZRO ELSE 0]
           /\ fetch_addr = IF first THEN 0 ELSE last
           /\ instr = IF first THEN 0
                      ELSE Cell(IF polled THEN r.memory ELSE loaded, last)
           /\ priorMode = m
           /\ fdwOldMode = m
           /\ fdwMode = NewMode(m)
           /\ conMode = NewMode(m)
           /\ running = 1
           /\ pcl = "loop"
           /\ j = 2
           /\ out = <<>>
           /\ exit_code = 0
           /\ handler = TRUE
           /\ hStdin = "STD_INPUT_HANDLE"
           /\ nfetch = 0
           /\ call = NoCall

NextLoop ==
    \/ ExecutionLoop
    \/ TypeKey

SpecLoop == InitLoop /\ [][NextLoop]_vars

(* ============================== properties ============================= *)
\* Images argv[1..NumLoaded] have been read into memory and the execution
\* loop has not touched memory yet.
LoadPhase == pcl \in {"load", "signal", "disable", "init"}
NumLoaded == j - 1
AllLoaded == pcl \in {"signal", "disable", "init"}

Opcode(w)  == w \div 4096
TrapVect(w) == w % 256

\* C1: once the loop has fetched TRAP x25 (HALT) the running flag is false,
\* so the loop stops there: PC stays just past the HALT word.
C1_HaltStopsLoop ==
    (nfetch > 0 /\ Opcode(instr) = OP_TRAP /\ TrapVect(instr) = 37)
        => (running = 0 /\ reg[R_PC] = (fetch_addr + 1) % UINT16)

\* C2: once the loop has fetched a word with opcode RES (1101) or RTI (1000)
\* the simulator has stopped with a reported error; it is not still looping.
C2_UnsupportedOpcodeHalts ==
    (nfetch > 0 /\ Opcode(instr) \in {OP_RES, OP_RTI})
        => (pcl = "exited" /\ exit_code # 0 /\ out # <<>>)

\* C3: a single image with origin 0x3000 and N words (0x3000 + N <= 65536)
\* leaves exactly those words at 0x3000..0x3000+N-1 and zero everywhere else.
C3_RoundTrip ==
    (LoadPhase /\ NumLoaded = 1 /\ Len(argv) = 1
        /\ argv[1].origin = PC_START
        /\ PC_START + Len(argv[1].words) <= MEMORY_MAX)
    => LET N == Len(argv[1].words)
       IN  /\ \A i \in 1..N : Cell(memory, PC_START + i - 1) = argv[1].words[i]
           /\ \A a \in DOMAIN memory : a \in PC_START..(PC_START + N - 1)

C3_Witness ==
    /\ AllLoaded /\ Len(argv) = 1
    /\ argv[1].origin = PC_START
    /\ argv[1].words = <<TRAP_HALT, WORD_RES>>
    /\ Cell(memory, PC_START) = TRAP_HALT
    /\ Cell(memory, PC_START + 1) = WORD_RES

\* C4: for every origin the loader takes min(stream words, 65536 - origin)
\* words and puts them in consecutive cells starting at the origin.
C4_LoadsMinOfStreamAndRoom ==
    (LoadPhase /\ NumLoaded >= 1)
    => LET img == argv[NumLoaded]
           n   == Min(Len(img.words), MEMORY_MAX - img.origin)
       IN  /\ nread = n
           /\ \A i \in 1..n : Cell(memory, img.origin + i - 1) = img.words[i]

\* C5: when some image path cannot be opened the program never gets past the
\* load loop: no instruction is fetched, and when it has exited it did so
\* with status 1 after printing the diagnostic for the first such path.
FirstMissing == CHOOSE k \in 1..Len(argv) :
                    /\ ~argv[k].exists
                    /\ \A i \in 1..(k - 1) : argv[i].exists

C5_UnopenableImageFails ==
    (\E k \in 1..Len(argv) : ~argv[k].exists)
    => /\ pcl \in {"args", "load", "exited"}
       /\ nfetch = 0
       /\ j <= FirstMissing
       /\ (pcl = "exited" =>
             /\ exit_code = 1
             /\ out = <<[msg |-> "failed to load image", arg |-> FirstMissing]>>)

C5_Witness ==
    /\ pcl = "exited" /\ exit_code = 1
    /\ Len(argv) = 2 /\ argv[1].exists /\ ~argv[2].exists
    /\ Cell(memory, PC_START) = TRAP_HALT
    /\ out # <<>>

\* C6: an image whose origin gives the loader a capacity of zero words makes
\* the load fail: the program never leaves the load phase except by exiting
\* with a nonzero status and a diagnostic.
C6_NoRoomIsLoadFailure ==
    (\E k \in 1..Len(argv) :
        /\ \A i \in 1..k : argv[i].exists
        /\ MaxRead(ImageOrigin(argv[k])) = 0)
    => /\ pcl \in {"args", "load", "exited"}
       /\ (pcl = "exited" => exit_code # 0 /\ out # <<>>)

\* C7: the first instruction word the loop fetches is the content of cell
\* 0x3000, whatever the origins of the loaded images.
C7_StartsAtPCStart ==
    /\ (pcl = "loop" /\ nfetch = 0) => reg[R_PC] = PC_START
    /\ (nfetch = 1) => (fetch_addr = PC_START /\ instr = Cell(memory, PC_START))

C7_Witness ==
    /\ nfetch = 1
    /\ Len(argv) = 2
    /\ argv[1].origin = 65535 /\ argv[1].words # <<>>
    /\ argv[2].origin = PC_START
    /\ instr = WORD_RES

\* C8: after images 1..k have been loaded in argument order every cell holds
\* the word of the last image whose loaded range covers it, and 0 if none does.
LoadedRange(k) ==
    LET o == ImageOrigin(argv[k])
    IN  {a \in o..(o + Len(argv[k].words) - 1) : a - o < ReadCount(argv[k])}

Covering(a) == {k \in 1..NumLoaded : a \in LoadedRange(k)}

SetMax(S) == CHOOSE m \in S : \A x \in S : x <= m

ExpectedCell(a) ==
    IF Covering(a) = {} THEN 0
    ELSE LET k == SetMax(Covering(a))
         IN  argv[k].words[a - argv[k].origin + 1]

C8_LaterImageOverwrites ==
    LoadPhase
    => \A a \in (DOMAIN memory) \cup UNION {LoadedRange(k) : k \in 1..NumLoaded} :
          Cell(memory, a) = ExpectedCell(a)

C8_Witness ==
    /\ AllLoaded /\ Len(argv) = 2
    /\ argv[1].origin = PC_START /\ argv[1].words = <<TRAP_HALT, WORD_RES>>
    /\ argv[2].origin = PC_START /\ argv[2].words = <<WORD_RES, WORD_RTI>>
    /\ Cell(memory, PC_START) = WORD_RES
    /\ Cell(memory, PC_START + 1) = WORD_RTI

\* C9: mem_read(0xFE00) with a character waiting stores 0x8000 at 0xFE00 and
\* the character at 0xFE02 and returns 0x8000; with none waiting it stores 0
\* at 0xFE00 and returns 0.
IsCall(c, d) == d.n = c.n + 1

C9_KeyboardStatusPoll ==
    [][ (IsCall(call, call') /\ call'.op = "mem_read" /\ call'.addr = MR_KBSR)
        => IF kbd # <<>>
           THEN /\ Cell(memory', MR_KBSR) = 32768
                /\ Cell(memory', MR_KBDR) = Head(kbd)
                /\ call'.ret = 32768
           ELSE /\ Cell(memory', MR_KBSR) = 0
                /\ call'.ret = 0 ]_vars

C9_Witness ==
    /\ call.op = "mem_read" /\ call.addr = MR_KBSR /\ call.ret = 32768
    /\ Cell(memory, MR_KBSR) = 32768
    /\ Cell(memory, MR_KBDR) = 98

\* C10: mem_read of any address but 0xFE00 returns the cell, consumes no
\* input and changes no cell; mem_write(a, v) changes cell a only; so a
\* mem_read(a) after mem_write(a, v), a # 0xFE00, returns v.
SameExcept(m1, m2, a) ==
    \A x \in ((DOMAIN m1) \cup (DOMAIN m2)) \ {a} : Cell(m1, x) = Cell(m2, x)

C10_PlainCellsVerbatim ==
    [][ /\ (IsCall(call, call') /\ call'.op = "mem_read" /\ call'.addr # MR_KBSR)
           => /\ call'.ret = Cell(memory, call'.addr)
              /\ memory' = memory
              /\ kbd' = kbd
              /\ (call.op = "mem_write" /\ call.addr = call'.addr
                    => call'.ret = call.val)
        /\ (IsCall(call, call') /\ call'.op = "mem_write")
           => /\ Cell(memory', call'.addr) = call'.val
              /\ SameExcept(memory, memory', call'.addr)
              /\ kbd' = kbd ]_vars

C10_Witness ==
    /\ call.op = "mem_read" /\ call.addr = MR_KBDR /\ call.n = 2
    /\ call.ret = TRAP_HALT
    /\ kbd # <<>>

\* C11: every iteration reads the instruction word at the address PC held
\* when the iteration began and leaves PC at that address plus 1 modulo
\* 65536; a fetch at 0xFFFF wraps PC to 0 and raises no error.
IsFetch == nfetch' = nfetch + 1

C11_FetchThenIncrement ==
    [][ IsFetch
        => /\ fetch_addr' = reg[R_PC]
           /\ instr' = Cell(memory', reg[R_PC])
           /\ reg'[R_PC] = (reg[R_PC] + 1) % UINT16
           /\ pcl' = "loop" /\ running' = running
           /\ out' = out /\ exit_code' = exit_code ]_vars

C11_Witness ==
    /\ pcl = "loop" /\ nfetch > 0
    /\ fetch_addr = 65535
    /\ reg[R_PC] = 0
    /\ out = <<>>

\* C12: in every reachable state the condition register holds exactly one
\* of the flag bits POS, ZRO, NEG.
Flags == {FL_POS, FL_ZRO, FL_NEG}

C12_CondOneFlagAlways == reg[R_COND] \in Flags

\* C12, amended: the register holds exactly one flag bit from the assignment
\* reg[R_COND] = FL_ZRO onward, that is throughout the execution loop; from
\* its creation until that assignment it holds 0.
C12_CondOneFlagOnceSet ==
    /\ (pcl = "loop") => reg[R_COND] \in Flags
    /\ (pcl \in {"args", "load", "signal", "disable", "getmode", "setmode",
                 "init"}) => reg[R_COND] = 0

C12_Witness ==
    /\ pcl = "loop" /\ nfetch > 0
    /\ instr = TRAP_HALT
    /\ reg[R_COND] = FL_ZRO

(* Instruction fields and the flag rule, as the claims about ADD and LDI    *)
(* state them.                                                              *)
DR(w)      == (w \div 512) % 8
SR1(w)     == (w \div 64) % 8
ImmFlag(w) == (w \div 32) % 2

\* Two's-complement sign extension of the low `bits` bits of x to 16 bits.
SignExtend(x, bits) ==
    LET f == x % (2 ^ bits)
    IN  IF f \div (2 ^ (bits - 1)) = 1 THEN f + UINT16 - 2 ^ bits ELSE f

FlagOf(v) == IF v = 0 THEN FL_ZRO ELSE IF v >= 32768 THEN FL_NEG ELSE FL_POS

\* C13: after the loop has fetched an ADD with the immediate bit set, the
\* destination register holds (src1 + sign-extended imm5) modulo 65536 and
\* the condition register holds the flag of that result.  Stated for a
\* destination other than the source, whose value the state then still shows.
C13_AddImmediate ==
    (nfetch > 0 /\ Opcode(instr) = OP_ADD /\ ImmFlag(instr) = 1
        /\ DR(instr) # SR1(instr))
    => /\ reg[DR(instr)] =
            (reg[SR1(instr)] + SignExtend(instr % 32, 5)) % UINT16
       /\ reg[R_COND] = FlagOf(reg[DR(instr)])

\* C14: after the loop has fetched an LDI, with A the word at PC (already
\* incremented) plus the sign-extended 9-bit offset, the destination register
\* holds the word at A and the condition register holds its flag.
C14_LoadIndirect ==
    (nfetch > 0 /\ Opcode(instr) = OP_LDI)
    => LET ptr == (fetch_addr + 1 + SignExtend(instr % 512, 9)) % UINT16
           A   == Cell(memory, ptr)
       IN  /\ reg[DR(instr)] = Cell(memory, A)
           /\ reg[R_COND] = FlagOf(reg[DR(instr)])

\* C15: when SIGINT is handled the console is left in the mode it had before
\* the simulator touched it, at whatever point of the run the signal arrives.
C15_InterruptRestoresMode ==
    (pcl = "exited" /\ exit_code = -2) => conMode = priorMode

\* C16: for every origin and stream length read_image_file asks fread for at
\* most 65536 - origin words and stores only into cells origin..65535.
C16_LoaderStaysInArray ==
    (pcl = "loaded") =>
        LET origin == ImageOrigin(argv[1])
        IN  /\ origin = argv[1].origin
            /\ nread <= MEMORY_MAX - origin
            /\ nread <= Len(argv[1].words)
            /\ \A a \in DOMAIN memory :
                  /\ origin <= a
                  /\ a < origin + nread
                  /\ a <= MEMORY_MAX - 1
                  /\ memory[a] = argv[1].words[a - origin + 1]

C16_Witness ==
    /\ pcl = "loaded"
    /\ argv[1].origin = 65535
    /\ Len(argv[1].words) = 2
    /\ nread = 1
    /\ DOMAIN memory = {65535}

\* C17: a step of the execution loop changes no memory cell other than 0xFE00
\* and 0xFE02, changes those only when the fetch address is 0xFE00, and leaves
\* R0..R7 and every other cell at their values after loading.
DeviceCells == {MR_KBSR, MR_KBDR}
C17_LoopChangesOnlyKeyboardCells ==
    [][ (pcl = "loop") =>
          LET loaded == read_image_file(ZeroMemory, argv[1])
          IN  /\ \A a \in ((DOMAIN memory) \cup (DOMAIN memory')) \ DeviceCells :
                    Cell(memory', a) = Cell(memory, a)
              /\ (memory' # memory) => (IsFetch /\ reg[R_PC] = MR_KBSR)
              /\ \A r \in 0..(R_PC - 1) : reg'[r] = reg[r] /\ reg'[r] = 0
              /\ \A a \in ((DOMAIN memory') \cup (DOMAIN loaded)) \ DeviceCells :
                    Cell(memory', a) = Cell(loaded, a) ]_vars

C17_Witness ==
    /\ pcl = "loop"
    /\ nfetch > 0
    /\ fetch_addr = MR_KBSR
    /\ instr = 32768
    /\ Cell(memory, MR_KBSR) = 32768
    /\ Cell(memory, MR_KBDR) = 97
    /\ DOMAIN read_image_file(ZeroMemory, argv[1]) # {}

\* C18: a mem_read of 0xFE00 with input waiting takes exactly the first waiting
\* character and stores it in 0xFE02 over whatever was there; with no input
\* waiting it takes nothing and leaves 0xFE02; a mem_read of any other address
\* takes nothing and leaves 0xFE02.
IsRead == call'.n = call.n + 1 /\ call'.op = "mem_read"
C18_PollConsumesOneInOrder ==
    [][ IsRead =>
          IF call'.addr = MR_KBSR /\ kbd # <<>>
          THEN /\ kbd' = Tail(kbd)
               /\ call'.got = Append(call.got, Head(kbd))
               /\ Cell(memory', MR_KBDR) = Head(kbd)
          ELSE /\ kbd' = kbd
               /\ call'.got = call.got
               /\ Cell(memory', MR_KBDR) = Cell(memory, MR_KBDR) ]_vars

C18_Witness ==
    /\ call.op = "mem_read"
    /\ call.addr = MR_KBSR
    /\ call.n = 2
    /\ call.got = <<97, 98>>
    /\ kbd = <<>>
    /\ Cell(memory, MR_KBDR) = 98

\* C19: the result of swap16 is a 16-bit word whose high byte is the low byte
\* of the argument and whose low byte is its high byte, and swap16 of the
\* result is the argument again, for every word 0..65535.
C19_Swap16Involution ==
    (call.op = "swap16") =>
        /\ call.ret \in 0..(UINT16 - 1)
        /\ call.ret \div 256 = call.val % 256
        /\ call.ret % 256 = call.val \div 256
        /\ swap16(call.ret) = call.val
        /\ (call.n = 2) => (call.ret = call.addr)

C19_Witness ==
    /\ call.op = "swap16"
    /\ call.n = 2
    /\ call.addr = 65280 + 1
    /\ call.val = 256 + 255
    /\ call.ret = call.addr

\* C20: once disable_input_buffering has run, the echo and line input bits of
\* the console mode are clear and every other bit is as it was before.
Bit(m, b) == (m \div b) % 2
C20_EchoAndLineCleared ==
    (pcl \in {"init", "loop"}) =>
        /\ Bit(conMode, ENABLE_ECHO_INPUT) = 0
        /\ Bit(conMode, ENABLE_LINE_INPUT) = 0
        /\ conMode = priorMode - (Bit(priorMode, ENABLE_ECHO_INPUT) * ENABLE_ECHO_INPUT
                                  + Bit(priorMode, ENABLE_LINE_INPUT) * ENABLE_LINE_INPUT)
====
